---------------------------- MODULE Spec2Model ----------------------------
(***************************************************************************)
(* Account-and-resource backend (backend/main.py, backend/auth.py,         *)
(* backend/models.py): the request handlers over the relational store.     *)
(*                                                                         *)
(*   Spec           handlers of the owned resources (saved models, gesture *)
(*                  mappings, music sequences), one request at a time      *)
(*   SpecSave       the save handlers alone, with two payloads             *)
(*   SpecAuth       forgot_password / reset_password, one request at a time*)
(*   SpecSaveRace   two workers running save requests as transactions of   *)
(*                  a read-committed store                                 *)
(*   SpecResetRace  two workers running reset_password as transactions     *)
(*   SpecHash       hash_password and verify_password on their own         *)
(*   SpecAccount    signup, login and the handlers behind require_user,    *)
(*                  one request at a time                                  *)
(*   SpecAccountRace two workers running signup / update_profile as        *)
(*                  transactions                                           *)
(*   SpecSaveAll    the save handlers over the three tables together       *)
(*   SpecCredential login, the handlers behind require_user and the        *)
(*                  password reset together, one request at a time         *)
(*   SpecList       the listings, with the saves and visibility changes    *)
(*                  that fill the tables, while the clock runs             *)
(***************************************************************************)
EXTENDS Integers, Sequences, FiniteSets, TLC

VARIABLES
    users,                  \* table users: rows [id, username, email, hashed_password]
    password_reset_tokens,  \* table password_reset_tokens: rows [token, user_id, expires_at]
    saved_models,           \* table saved_models
    gesture_mappings,       \* table gesture_mappings
    music_sequences,        \* table music_sequences
    next_id,                \* per table, the next value of its autoincrement primary key
    next_token,             \* the next uuid4 (fresh each time it is drawn)
    now,                    \* datetime.utcnow(), in hours
    call,                   \* the last request handled at once and its response
    tx,                     \* per worker, the request it runs as a transaction
                            \* (its session) and, at "done", its response
    consumed,               \* history: reset tokens a reset_password has succeeded with
    issued                  \* history: the access tokens handed out (clients hold them)

vars == <<users, password_reset_tokens, saved_models, gesture_mappings,
          music_sequences, next_id, next_token, now, call, tx, consumed, issued>>

resources == <<saved_models, gesture_mappings, music_sequences>>

---------------------------------------------------------------------------
(* Bounds of the model *)

\* rows inserted into the three resource tables, all together
MaxRows == 2
\* reset tokens issued
MaxTokens == 2
\* hours the clock advances
MaxTime == 2

(* Program constants *)
\* expires = datetime.utcnow() + timedelta(hours=1)
ResetTokenTtl == 1
\* limit: int = Query(20, ge=1, le=100)
DefaultLimit == 20
MaxLimit == 100

(* Input domains *)
Limits == {1, DefaultLimit, MaxLimit + 1}
Offsets == {0, 1}
None == 0
UserIds == {1, 2}
Requesters == UserIds \cup {None}
\* the requests of concurrent workers: one account's, or anonymous
RaceRequesters == {1, None}
Names == {<<"a">>, <<"A">>}
Payloads == {"d1", "d2"}
\* a password is the sequence of its characters
Hunter2 == <<"h", "u", "n", "t", "e", "r", "2">>
Secret9 == <<"s", "e", "c", "r", "e", "t", "9">>
Passwords == {Hunter2, Secret9}
Salts == {"s1", "s2"}
Workers == {"w1", "w2"}
Emails == {"a@x.com", "b@x.com", "nobody@x.com"}
NoName == <<>>
NoData == "null"

---------------------------------------------------------------------------
(* Credential store (auth.py) *)

\* bcrypt reads the first 72 bytes of its input
BcryptMaxBytes == 72

\* a faulty variant: the password goes to bcrypt as it is
NoNormalize(password) == password

\* hashlib.sha256(password.encode()).hexdigest(): 64 hex characters that stand
\* for the whole password (one digest per password), here one element
normalize_password(password) == <<"sha256", password>>

\* what bcrypt reads of the secret it is given
Bcrypt(secret) ==
    IF Len(secret) > BcryptMaxBytes THEN SubSeq(secret, 1, BcryptMaxBytes) ELSE secret

\* pwd_context.hash draws a salt
hash_password(password, salt) ==
    [scheme |-> "bcrypt", salt |-> salt,
     digest |-> Bcrypt(normalize_password(password))]

\* users.hashed_password is nullable: the column's NULL
NoHash == [scheme |-> "none", salt |-> "", digest |-> <<>>]

verify_password(plain_password, hashed_password) ==
    /\ hashed_password.scheme = "bcrypt"
    /\ hashed_password.digest = Bcrypt(normalize_password(plain_password))

---------------------------------------------------------------------------
(* Access tokens (auth.py).  A token is what its three segments say: the    *)
(* "sub" and "exp" of its payload and the key its signature was made with.  *)

\* os.getenv("JWT_SECRET_KEY", "dev-secret-change-in-production")
SECRET_KEY == "dev-secret-change-in-production"

\* int(os.getenv("JWT_EXPIRE_MINUTES", "1440"))
ACCESS_TOKEN_EXPIRE_MINUTES == 1440

\* a request without an Authorization header
NoToken == [kind |-> "none", sub |-> "", exp |-> 0, key |-> ""]

\* a bearer string that is not a JWT
Garbage == [kind |-> "garbage", sub |-> "", exp |-> 0, key |-> ""]

\* a payload without "sub"
NoSub == ""

\* jwt.encode(data + {"exp": utcnow() + timedelta(minutes=...)}, SECRET_KEY);
\* the clock is in hours
create_access_token(sub) ==
    [kind |-> "jwt", sub |-> sub, exp |-> now + ACCESS_TOKEN_EXPIRE_MINUTES \div 60,
     key |-> SECRET_KEY]

\* a faulty variant: any signature passes
SignatureValidAlways(token) == TRUE

\* the signature was made with the key of the deployment
SignatureValid(token) == token.key = SECRET_KEY

\* a faulty variant: the expiry is not looked at
ExpiredSignatureNever(token) == FALSE

\* the "exp" of the payload is behind the clock
ExpiredSignature(token) == token.exp < now

\* jwt.decode(token, SECRET_KEY, algorithms=[ALGORITHM]) raises JWTError
JWTError(token) ==
    \/ token.kind # "jwt"
    \/ ~SignatureValid(token)
    \/ ExpiredSignature(token)

\* the integer the store compares users.id with, given the "sub" string
ParseId(sub) ==
    LET ids == {i \in 1..9 : ToString(i) = sub}
    IN  IF ids = {} THEN None ELSE CHOOSE i \in ids : TRUE

\* get_current_user up to its query: the user_id of the token, None without
token_subject(token) ==
    IF token = NoToken THEN None
    ELSE IF JWTError(token) THEN None
    ELSE IF token.sub = NoSub THEN None
    ELSE ParseId(token.sub)

---------------------------------------------------------------------------
(* The store after create_all and the registration of two accounts *)

\* a username is the sequence of its characters
Amy == <<"a", "m", "y">>
Bob == <<"b", "o", "b">>
Cat == <<"c", "a", "t">>

RegisteredUsers ==
    { [id |-> 1, username |-> Amy, email |-> "a@x.com",
       hashed_password |-> hash_password(Hunter2, "s1")],
      [id |-> 2, username |-> Bob, email |-> "b@x.com",
       hashed_password |-> hash_password(Secret9, "s1")] }

Call(op, user, id, status) ==
    [op |-> op, user |-> user, id |-> id, name |-> NoName, data |-> NoData,
     is_active |-> FALSE, is_public |-> FALSE, token |-> 0,
     existing |-> 0, status |-> status, detail |-> "", body |-> <<>>,
     email |-> "", password |-> <<>>, bearer |-> NoToken, access_token |-> NoToken,
     new_password |-> <<>>, mail |-> ""]

NoCall == Call("none", None, 0, 0)

\* a query's .first() that found no row
NoRow == [id |-> 0]

\* a worker with no request: an empty session
IdleTx ==
    [pc |-> "idle", op |-> "none", user |-> None, name |-> NoName, data |-> NoData,
     is_active |-> FALSE, is_public |-> FALSE, snapshot |-> {}, deactivated |-> {},
     loaded |-> NoRow, id |-> 0, locks |-> {}, token |-> 0,
     new_password |-> NoData, salt |-> NoData, status |-> 0, detail |-> "",
     email |-> "", bearer |-> NoToken]

Init ==
    /\ users = RegisteredUsers
    /\ password_reset_tokens = {}
    /\ saved_models = {}
    /\ gesture_mappings = {}
    /\ music_sequences = {}
    /\ next_id = [saved_models |-> 1, gesture_mappings |-> 1, music_sequences |-> 1,
                  users |-> Cardinality(RegisteredUsers) + 1]
    /\ next_token = 1
    /\ now = 0
    /\ call = NoCall
    /\ tx = [w \in Workers |-> IdleTx]
    /\ consumed = {}
    /\ issued = {}

---------------------------------------------------------------------------
(* Queries *)

RowsInserted ==
    (next_id.saved_models - 1) + (next_id.gesture_mappings - 1)
        + (next_id.music_sequences - 1)

\* The bound on inserts
MayInsert == RowsInserted < MaxRows

\* no row was ever inserted into the table
Unused(table_name) == next_id[table_name] = 1

Ids(table) == {r.id : r \in table}

\* db.query(T).filter(T.id == id): the rows with that primary key
ById(table, id) == {r \in table : r.id = id}

\* a faulty variant: the lookup by name finds nothing
ByOwnerNameNone(table, user, name) == {}

\* a faulty variant: the lookup of the row to rewrite ignores the owner
ByNameAnyOwner(table, user, name) == {r \in table : r.name = name}

\* db.query(T).filter(T.user_id == user, T.name == name)
ByOwnerName(table, user, name) ==
    {r \in table : r.user_id = user /\ r.name = name}

\* a faulty variant: the rewrite drops the other rows of the table
ReplaceAll(table, old, new) == {new}

\* an ORM object changed and flushed: the row with its primary key is rewritten
Replace(table, old, new) == (table \ {old}) \cup {new}

\* db.query(T).filter(T.user_id == user).update({"is_active": False})
DeactivateAll(table, user) ==
    {IF r.user_id = user THEN [r EXCEPT !.is_active = FALSE] ELSE r : r \in table}

\* a faulty variant: the siblings are left as they are
DeactivateOthersNever(table, user, is_active) == table

\* if req.is_active: every row of the user is set inactive
DeactivateOthers(table, user, is_active) ==
    IF is_active THEN DeactivateAll(table, user) ELSE table

\* a faulty variant: the delete makes the owner's other rows active
DeletePromoting(table, row) ==
    {IF r.user_id = row.user_id THEN [r EXCEPT !.is_active = TRUE] ELSE r :
     r \in table \ {row}}

\* db.delete(row)
Delete(table, row) == table \ {row}

\* a faulty variant: the lookup does not filter on the owner
ByIdAnyOwner(table, id, user) == ById(table, id)

\* db.query(T).filter(T.id == id, T.user_id == user)
ByIdOwner(table, id, user) == {r \in table : r.id = id /\ r.user_id = user}

Min(a, b) == IF a < b THEN a ELSE b

\* the sequences that hold each row of the set once
Orderings(rows) ==
    {s \in [1..Cardinality(rows) -> rows] :
        \A i, j \in 1..Cardinality(rows) : i # j => s[i] # s[j]}

\* .order_by(T.created_at.desc()): rows of one created_at come in any order
OrderByCreatedDesc(rows) ==
    {s \in Orderings(rows) :
        \A i, j \in 1..Len(s) : i < j => s[i].created_at >= s[j].created_at}

\* .offset(offset).limit(limit)
OffsetLimit(s, offset, limit) == SubSeq(s, offset + 1, Min(Len(s), offset + limit))

Lower(name) == [i \in 1..Len(name) |-> IF name[i] = "A" THEN "a" ELSE name[i]]

\* name ILIKE %search%
ILike(name, search) ==
    \E i \in 0..(Len(name) - Len(search)) :
        SubSeq(Lower(name), i + 1, i + Len(search)) = Lower(search)

Username(user_id) == (CHOOSE u \in users : u.id = user_id).username

AuthUnchanged ==
    UNCHANGED <<users, password_reset_tokens, next_token, now, consumed, issued>>

---------------------------------------------------------------------------
(* Identity resolver (auth.py).  A request carries the identity its bearer  *)
(* token resolves to, or None.                                              *)

\* get_current_user: the users row of the token's subject, None without one
get_current_user(subject) ==
    IF subject # None /\ \E u \in users : u.id = subject THEN subject ELSE None

\* require_user raises 401 when get_current_user gave None
NotAuthenticated(op, id) ==
    /\ call' = [Call(op, None, id, 401) EXCEPT !.detail = "Not authenticated"]
    /\ UNCHANGED <<resources, next_id, tx>>
    /\ AuthUnchanged

---------------------------------------------------------------------------
(* Saved models (main.py, Model Endpoints) *)

save_model(subject, name, data, is_public) ==
    LET user == get_current_user(subject)
        matching == ByOwnerName(saved_models, user, name)
    IN  IF user = None THEN NotAuthenticated("save_model", 0)
        ELSE
        /\ IF matching # {}
           THEN \E existing \in matching :
                  /\ saved_models' = Replace(saved_models, existing,
                        [existing EXCEPT !.data = data, !.is_public = is_public])
                  /\ next_id' = next_id
                  /\ call' = [Call("save_model", user, existing.id, 200) EXCEPT
                                !.existing = existing.id, !.name = name, !.data = data, !.is_public = is_public]
           ELSE /\ MayInsert
                /\ saved_models' = saved_models \cup
                      {[id |-> next_id.saved_models, user_id |-> user, name |-> name,
                        data |-> data, is_public |-> is_public, created_at |-> now]}
                /\ next_id' = [next_id EXCEPT !.saved_models = @ + 1]
                /\ call' = [Call("save_model", user, next_id.saved_models, 200) EXCEPT
                              !.name = name, !.data = data, !.is_public = is_public]
        /\ UNCHANGED <<gesture_mappings, music_sequences, tx>>
        /\ AuthUnchanged

\* the route takes no identity: the requester is not looked at
get_model_responses(subject, model_id) ==
    LET found == ById(saved_models, model_id)
    IN  IF found = {}
        THEN {[Call("get_model", subject, model_id, 404) EXCEPT
                 !.detail = "Model not found"]}
        ELSE {[Call("get_model", subject, model_id, 200) EXCEPT
                 !.name = m.name, !.is_public = m.is_public, !.body = <<m.data>>] :
              m \in found}

get_model(subject, model_id) ==
    /\ call' \in get_model_responses(subject, model_id)
    /\ UNCHANGED <<resources, next_id, tx>>
    /\ AuthUnchanged

delete_model(subject, model_id) ==
    LET user == get_current_user(subject)
        found == ById(saved_models, model_id)
    IN  IF user = None THEN NotAuthenticated("delete_model", model_id)
        ELSE
        /\ IF found = {}
           THEN call' = [Call("delete_model", user, model_id, 404) EXCEPT
                           !.detail = "Model not found"]
           ELSE \E m \in found :
                  IF m.user_id # user
                  THEN call' = [Call("delete_model", user, model_id, 403) EXCEPT
                                  !.detail = "Not your model"]
                  ELSE \* db.commit() with nothing changed in the session
                       call' = [Call("delete_model", user, model_id, 200) EXCEPT
                                  !.detail = "Model deleted"]
        /\ UNCHANGED <<resources, next_id, tx>>
        /\ AuthUnchanged

update_model_visibility(subject, model_id, is_public) ==
    LET user == get_current_user(subject)
        found == ById(saved_models, model_id)
    IN  IF user = None THEN NotAuthenticated("update_model_visibility", model_id)
        ELSE
        /\ IF found = {}
           THEN /\ call' = [Call("update_model_visibility", user, model_id, 404) EXCEPT
                              !.detail = "Model not found"]
                /\ saved_models' = saved_models
           ELSE \E m \in found :
                  IF m.user_id # user
                  THEN /\ call' = [Call("update_model_visibility", user, model_id, 403)
                                     EXCEPT !.detail = "Not your model"]
                       /\ saved_models' = saved_models
                  ELSE /\ saved_models' = Replace(saved_models, m,
                                                  [m EXCEPT !.is_public = is_public])
                       /\ call' = [Call("update_model_visibility", user, model_id, 200)
                                     EXCEPT !.is_public = is_public,
                                            !.detail = "Visibility updated"]
        /\ UNCHANGED <<gesture_mappings, music_sequences, next_id, tx>>
        /\ AuthUnchanged

\* a faulty variant: the listing does not filter on is_public
PublicModelsAll == saved_models

\* .join(models.User).filter(SavedModel.is_public == True)
PublicModels ==
    {m \in saved_models : m.is_public /\ \E u \in users : u.id = m.user_id}

\* the query of list_community_models before it is ordered and cut
CommunityModels(search) ==
    IF search # NoName THEN {m \in PublicModels : ILike(m.name, search)}
    ELSE PublicModels

RowIdsOf(s) == [i \in 1..Len(s) |-> s[i].id]

list_community_models_responses(search, limit, offset) ==
    IF limit < 1 \/ limit > MaxLimit \/ offset < 0
    THEN {[Call("list_community_models", None, 0, 422) EXCEPT !.name = search]}
    ELSE {[Call("list_community_models", None, 0, 200) EXCEPT
             !.name = search,
             !.body = RowIdsOf(OffsetLimit(results, offset, limit))] :
          results \in OrderByCreatedDesc(CommunityModels(search))}

list_community_models(search, limit, offset) ==
    /\ call' \in list_community_models_responses(search, limit, offset)
    /\ UNCHANGED <<resources, next_id, tx>>
    /\ AuthUnchanged

---------------------------------------------------------------------------
(* Gesture mappings (main.py, Config Endpoints).  A row's columns are id,   *)
(* user_id, name, data (mapping_data), is_active, is_public, created_at;    *)
(* is_public is not set by a save and starts at the column's default.       *)

save_gesture(subject, name, data, is_active) ==
    LET user == get_current_user(subject)
        deactivated == DeactivateOthers(gesture_mappings, user, is_active)
        matching == ByOwnerName(deactivated, user, name)
    IN  IF user = None THEN NotAuthenticated("save_gesture", 0)
        ELSE
        /\ IF matching # {}
           THEN \E existing \in matching :
                  /\ gesture_mappings' = Replace(deactivated, existing,
                        [existing EXCEPT !.data = data, !.is_active = is_active])
                  /\ next_id' = next_id
                  /\ call' = [Call("save_gesture", user, existing.id, 200) EXCEPT
                                !.existing = existing.id, !.name = name, !.data = data, !.is_active = is_active,
                                !.is_public = existing.is_public]
           ELSE /\ MayInsert
                /\ gesture_mappings' = deactivated \cup
                      {[id |-> next_id.gesture_mappings, user_id |-> user, name |-> name,
                        data |-> data, is_active |-> is_active, is_public |-> FALSE,
                        created_at |-> now]}
                /\ next_id' = [next_id EXCEPT !.gesture_mappings = @ + 1]
                /\ call' = [Call("save_gesture", user, next_id.gesture_mappings, 200) EXCEPT
                              !.name = name, !.data = data, !.is_active = is_active]
        /\ UNCHANGED <<saved_models, music_sequences, tx>>
        /\ AuthUnchanged

delete_gesture_mapping(subject, map_id) ==
    LET user == get_current_user(subject)
        found == ByIdOwner(gesture_mappings, map_id, user)
    IN  IF user = None THEN NotAuthenticated("delete_gesture_mapping", map_id)
        ELSE
        /\ IF found = {}
           THEN /\ call' = [Call("delete_gesture_mapping", user, map_id, 404) EXCEPT
                              !.detail = "Mapping not found"]
                /\ gesture_mappings' = gesture_mappings
           ELSE \E row \in found :
                  /\ gesture_mappings' = Delete(gesture_mappings, row)
                  /\ call' = [Call("delete_gesture_mapping", user, map_id, 200) EXCEPT
                                !.detail = "Deleted successfully"]
        /\ UNCHANGED <<saved_models, music_sequences, next_id, tx>>
        /\ AuthUnchanged

update_gesture_visibility(subject, map_id, is_public) ==
    LET user == get_current_user(subject)
        found == ById(gesture_mappings, map_id)
    IN  IF user = None THEN NotAuthenticated("update_gesture_visibility", map_id)
        ELSE
        /\ IF found = {}
           THEN /\ call' = [Call("update_gesture_visibility", user, map_id, 404) EXCEPT
                              !.detail = "Mapping not found"]
                /\ gesture_mappings' = gesture_mappings
           ELSE \E row \in found :
                  IF row.user_id # user
                  THEN /\ call' = [Call("update_gesture_visibility", user, map_id, 403) EXCEPT
                                     !.detail = "Not your mapping"]
                       /\ gesture_mappings' = gesture_mappings
                  ELSE /\ gesture_mappings' = Replace(gesture_mappings, row,
                                          [row EXCEPT !.is_public = is_public])
                       /\ call' = [Call("update_gesture_visibility", user, map_id, 200) EXCEPT
                                     !.is_public = is_public,
                                     !.detail = "Visibility updated"]
        /\ UNCHANGED <<saved_models, music_sequences, next_id, tx>>
        /\ AuthUnchanged

---------------------------------------------------------------------------
(* Music sequences (main.py, Config Endpoints).  name is the title column,  *)
(* data the sequence_data column.                                           *)

save_piano_sequence(subject, name, data, is_active) ==
    LET user == get_current_user(subject)
        deactivated == DeactivateOthers(music_sequences, user, is_active)
        matching == ByOwnerName(deactivated, user, name)
    IN  IF user = None THEN NotAuthenticated("save_piano_sequence", 0)
        ELSE
        /\ IF matching # {}
           THEN \E existing \in matching :
                  /\ music_sequences' = Replace(deactivated, existing,
                        [existing EXCEPT !.data = data, !.is_active = is_active])
                  /\ next_id' = next_id
                  /\ call' = [Call("save_piano_sequence", user, existing.id, 200) EXCEPT
                                !.existing = existing.id, !.name = name, !.data = data, !.is_active = is_active,
                                !.is_public = existing.is_public]
           ELSE /\ MayInsert
                /\ music_sequences' = deactivated \cup
                      {[id |-> next_id.music_sequences, user_id |-> user, name |-> name,
                        data |-> data, is_active |-> is_active, is_public |-> FALSE,
                        created_at |-> now]}
                /\ next_id' = [next_id EXCEPT !.music_sequences = @ + 1]
                /\ call' = [Call("save_piano_sequence", user, next_id.music_sequences, 200) EXCEPT
                              !.name = name, !.data = data, !.is_active = is_active]
        /\ UNCHANGED <<saved_models, gesture_mappings, tx>>
        /\ AuthUnchanged

delete_piano_sequence(subject, seq_id) ==
    LET user == get_current_user(subject)
        found == ByIdOwner(music_sequences, seq_id, user)
    IN  IF user = None THEN NotAuthenticated("delete_piano_sequence", seq_id)
        ELSE
        /\ IF found = {}
           THEN /\ call' = [Call("delete_piano_sequence", user, seq_id, 404) EXCEPT
                              !.detail = "Sequence not found"]
                /\ music_sequences' = music_sequences
           ELSE \E row \in found :
                  /\ music_sequences' = Delete(music_sequences, row)
                  /\ call' = [Call("delete_piano_sequence", user, seq_id, 200) EXCEPT
                                !.detail = "Deleted successfully"]
        /\ UNCHANGED <<saved_models, gesture_mappings, next_id, tx>>
        /\ AuthUnchanged

update_piano_visibility(subject, seq_id, is_public) ==
    LET user == get_current_user(subject)
        found == ById(music_sequences, seq_id)
    IN  IF user = None THEN NotAuthenticated("update_piano_visibility", seq_id)
        ELSE
        /\ IF found = {}
           THEN /\ call' = [Call("update_piano_visibility", user, seq_id, 404) EXCEPT
                              !.detail = "Sequence not found"]
                /\ music_sequences' = music_sequences
           ELSE \E row \in found :
                  IF row.user_id # user
                  THEN /\ call' = [Call("update_piano_visibility", user, seq_id, 403) EXCEPT
                                     !.detail = "Not your sequence"]
                       /\ music_sequences' = music_sequences
                  ELSE /\ music_sequences' = Replace(music_sequences, row,
                                          [row EXCEPT !.is_public = is_public])
                       /\ call' = [Call("update_piano_visibility", user, seq_id, 200) EXCEPT
                                     !.is_public = is_public,
                                     !.detail = "Visibility updated"]
        /\ UNCHANGED <<saved_models, gesture_mappings, next_id, tx>>
        /\ AuthUnchanged

---------------------------------------------------------------------------
(* One request at a time on the owned resources.  The handlers of a    *)
(* table read and write no other table, so a run addresses one table:  *)
(* the requests on a table are offered while the other two are unused. *)

RowIds == 1..MaxRows

OnModels == Unused("gesture_mappings") /\ Unused("music_sequences")
OnGestures == Unused("saved_models") /\ Unused("music_sequences")
OnSequences == Unused("saved_models") /\ Unused("gesture_mappings")

SaveRequests(payloads) ==
    \E subject \in Requesters, name \in Names, data \in payloads, flag \in BOOLEAN :
       \/ OnModels /\ save_model(subject, name, data, flag)
       \/ OnGestures /\ save_gesture(subject, name, data, flag)
       \/ OnSequences /\ save_piano_sequence(subject, name, data, flag)

OtherRequests ==
    \/ \E subject \in Requesters, id \in RowIds :
         \/ OnModels /\ get_model(subject, id)
         \/ OnModels /\ delete_model(subject, id)
         \/ OnGestures /\ delete_gesture_mapping(subject, id)
         \/ OnSequences /\ delete_piano_sequence(subject, id)
    \/ \E subject \in Requesters, id \in RowIds, is_public \in BOOLEAN :
         \/ OnModels /\ update_model_visibility(subject, id, is_public)
         \/ OnGestures /\ update_gesture_visibility(subject, id, is_public)
         \/ OnSequences /\ update_piano_visibility(subject, id, is_public)
    \/ \E search \in Names \cup {NoName}, limit \in Limits, offset \in Offsets :
         OnModels /\ list_community_models(search, limit, offset)

\* every handler, the saves with one payload
Next == SaveRequests({"d1"}) \/ OtherRequests

\* the saves alone, with two payloads
NextSave == SaveRequests(Payloads)

Spec == Init /\ [][Next]_vars

SpecSave == Init /\ [][NextSave]_vars

---------------------------------------------------------------------------
(* Properties of the owned resources *)

Range(s) == {s[i] : i \in 1..Len(s)}

SaveOps == {"save_model", "save_gesture", "save_piano_sequence"}
DeleteOps == {"delete_model", "delete_gesture_mapping", "delete_piano_sequence"}
VisibilityOps ==
    {"update_model_visibility", "update_gesture_visibility", "update_piano_visibility"}

\* the table a handler works on
TableOf(op) ==
    CASE op \in {"save_model", "get_model", "delete_model", "update_model_visibility",
                 "list_community_models"} -> saved_models
      [] op \in {"save_gesture", "delete_gesture_mapping", "update_gesture_visibility"}
           -> gesture_mappings
      [] OTHER -> music_sequences

ActiveOf(table, user) == {r \in table : r.user_id = user /\ r.is_active}

\* C1: an owner has at most one active gesture mapping and at most one active
\* music sequence, and after a save with is_active = true the saved row is the
\* owner's only active row of its kind.
C1_SingleActive ==
    /\ \A user \in UserIds :
         /\ Cardinality(ActiveOf(gesture_mappings, user)) <= 1
         /\ Cardinality(ActiveOf(music_sequences, user)) <= 1
    /\ (call.op \in {"save_gesture", "save_piano_sequence"}
          /\ call.status = 200 /\ call.is_active)
         => /\ ActiveOf(TableOf(call.op), call.user) = ById(TableOf(call.op), call.id)
            /\ Cardinality(ById(TableOf(call.op), call.id)) = 1

\* C1 witness: a save made an existing mapping active while the owner has
\* another mapping, which is inactive.
C1_Witness ==
    /\ call.op = "save_gesture" /\ call.status = 200 /\ call.is_active
    /\ call.existing = call.id
    /\ \E r \in gesture_mappings :
         r.user_id = call.user /\ r.id # call.id /\ ~r.is_active
    /\ \E r \in gesture_mappings : r.id = call.id /\ r.is_active

NoDuplicateNames(table) ==
    \A r1, r2 \in table :
        (r1.user_id = r2.user_id /\ r1.name = r2.name) => r1 = r2

\* what a save did to its table, given the table before and after
SaveIsUpsert(before, after) ==
    LET same == ByOwnerName(before, call'.user, call'.name)
    IN  IF same # {}
        THEN /\ Ids(after) = Ids(before)
             /\ Cardinality(after) = Cardinality(before)
             /\ \E old \in same :
                  /\ call'.id = old.id
                  /\ \E new \in after :
                       /\ new.id = old.id /\ new.user_id = old.user_id
                       /\ new.name = old.name /\ new.data = call'.data
        ELSE /\ call'.id \notin Ids(before)
             /\ Ids(after) = Ids(before) \cup {call'.id}
             /\ Cardinality(after) = Cardinality(before) + 1
             /\ \E new \in after :
                  /\ new.id = call'.id /\ new.user_id = call'.user
                  /\ new.name = call'.name /\ new.data = call'.data

\* C5: under save requests handled one at a time no two rows of a table share
\* (owner, name); a save of an existing (owner, name) rewrites that row (same
\* id, no new row) with the payload of the save, and a save of a new name
\* inserts exactly one row.
C5_Upsert ==
    /\ [](/\ NoDuplicateNames(saved_models)
          /\ NoDuplicateNames(gesture_mappings)
          /\ NoDuplicateNames(music_sequences))
    /\ [][(call'.op \in SaveOps /\ call'.status = 200) =>
            CASE call'.op = "save_model" -> SaveIsUpsert(saved_models, saved_models')
              [] call'.op = "save_gesture" ->
                   SaveIsUpsert(gesture_mappings, gesture_mappings')
              [] OTHER -> SaveIsUpsert(music_sequences, music_sequences')]_vars

\* C5 witness: a save found its (owner, name) and rewrote the row with the
\* second payload.
C5_Witness ==
    /\ call.op = "save_model" /\ call.status = 200
    /\ call.existing = call.id /\ call.data = "d2"
    /\ Cardinality(saved_models) = 1
    /\ \E m \in saved_models : m.id = call.id /\ m.data = "d2" /\ m.name = call.name

\* C7: a get of a private saved model by anyone but its owner (anonymous
\* included) is rejected and returns no payload.
C7_PrivateModelOwnerOnly ==
    (call.op = "get_model" /\
     \E m \in saved_models : m.id = call.id /\ ~m.is_public /\ m.user_id # call.user)
        => (call.status \in {403, 404} /\ call.body = <<>>)

\* C8: a saved model is public after the owner's set_visibility(id, true) and
\* private after set_visibility(id, false); while it is public an anonymous
\* get returns it and the community listing holds it; while it is private the
\* community listing does not; and only a save or set_visibility by the owner
\* makes a public model private.
C8_PublicVisible ==
    /\ [](/\ (call.op = "update_model_visibility" /\ call.status = 200) =>
               \E m \in saved_models : m.id = call.id /\ m.is_public = call.is_public
          /\ \A m \in saved_models :
               IF m.is_public
               THEN /\ \A r \in get_model_responses(None, m.id) :
                         r.status = 200 /\ r.body = <<m.data>>
                    /\ \A r \in list_community_models_responses(NoName, DefaultLimit, 0) :
                         r.status = 200 /\ m.id \in Range(r.body)
               ELSE \A search \in Names \cup {NoName}, limit \in Limits,
                       offset \in Offsets :
                         \A r \in list_community_models_responses(search, limit, offset) :
                            m.id \notin Range(r.body))
    /\ [][\A m \in saved_models :
            (m.is_public /\ m \notin saved_models') =>
               /\ call'.user = m.user_id
               /\ call'.id = m.id
               /\ call'.op \in {"save_model", "update_model_visibility"}]_vars

\* C8 witness: the owner's set_visibility(id, true) has succeeded.
C8_Witness ==
    /\ call.op = "update_model_visibility" /\ call.status = 200 /\ call.is_public
    /\ \E m \in saved_models : m.id = call.id /\ m.is_public /\ m.user_id = call.user

\* C9: once a delete by the owner has returned ok, the id is absent from the
\* store (for saved models, gesture mappings and music sequences alike).
C9_DeleteRemoves ==
    (call.op \in DeleteOps /\ call.status = 200) => call.id \notin Ids(TableOf(call.op))

\* C10: a delete or set_visibility request by anyone but the owner of the row
\* (another identity, or no identity) leaves the row as it is.
C10_OwnerOnlyMutation ==
    [][\A r \in saved_models \cup gesture_mappings \cup music_sequences :
          (/\ call'.op \in DeleteOps \cup VisibilityOps
           /\ r \in TableOf(call'.op)
           /\ r.id = call'.id
           /\ r.user_id # call'.user)
          => /\ call'.status \in {401, 403, 404}
             /\ CASE call'.op \in {"delete_model", "update_model_visibility"} ->
                       r \in saved_models'
                  [] call'.op \in {"delete_gesture_mapping", "update_gesture_visibility"} ->
                       r \in gesture_mappings'
                  [] OTHER -> r \in music_sequences']_vars

\* C10 witness: an identity that does not own it asked to delete a gesture
\* mapping; the row is there.
C10_Witness ==
    /\ call.op = "delete_gesture_mapping"
    /\ call.user # None
    /\ \E r \in gesture_mappings : r.id = call.id /\ r.user_id # call.user

---------------------------------------------------------------------------
(* Password reset (main.py, Auth Endpoints) *)

\* no resource row is written, no primary key drawn, no access token handed out
ResourcesUnchanged == UNCHANGED <<resources, next_id, issued>>

\* the clock
Tick ==
    /\ now < MaxTime
    /\ now' = now + 1
    /\ UNCHANGED <<users, password_reset_tokens, next_token, consumed, call, tx>>
    /\ ResourcesUnchanged

\* db.query(models.User).filter(models.User.email == req.email)
ByEmail(email) == {u \in users : u.email = email}

\* db.query(PasswordResetToken).filter(PasswordResetToken.token == req.token)
ByToken(token) == {t \in password_reset_tokens : t.token = token}

\* mail_fails: send_reset_email raises (the mail service cannot be reached)
forgot_password(email, mail_fails) ==
    /\ IF ByEmail(email) = {}
       THEN /\ call' = [Call("forgot_password", None, 0, 200) EXCEPT
                          !.email = email,
                          !.detail = "If that email exists, a reset link has been sent."]
            /\ UNCHANGED <<password_reset_tokens, next_token>>
       ELSE \E user \in ByEmail(email) :
              /\ next_token <= MaxTokens
              /\ password_reset_tokens' = password_reset_tokens \cup
                    {[token |-> next_token, user_id |-> user.id,
                      expires_at |-> now + ResetTokenTtl]}
              /\ next_token' = next_token + 1
              /\ call' = IF mail_fails
                         THEN [Call("forgot_password", None, 0, 500) EXCEPT
                                 !.email = email, !.token = next_token,
                                 !.mail = email]
                         ELSE [Call("forgot_password", None, 0, 200) EXCEPT
                                 !.email = email, !.token = next_token,
                                 !.mail = email,
                                 !.detail =
                                    "If that email exists, a reset link has been sent."]
    /\ UNCHANGED <<users, now, consumed, tx>>
    /\ ResourcesUnchanged

\* a faulty variant: no token is ever taken for expired
ExpiredNever(reset_token) == FALSE

\* reset_token.expires_at < datetime.utcnow()
Expired(reset_token) == reset_token.expires_at < now

\* a faulty variant: the token row is left in the table
ConsumeTokenNot(reset_token) == password_reset_tokens

\* a faulty variant: every token row of the owner is deleted
ConsumeTokensOfOwner(reset_token) ==
    {t \in password_reset_tokens : t.user_id # reset_token.user_id}

\* db.delete(reset_token)
ConsumeToken(reset_token) == password_reset_tokens \ {reset_token}

\* a faulty variant: the row of the user is lost in the rewrite
SetPasswordDropsRow(user, new_password, salt) == users \ {user}

\* a faulty variant: the hash is left as it was
SetPasswordNot(user, new_password, salt) == users

\* user.hashed_password = hash_password(req.new_password)
SetPassword(user, new_password, salt) ==
    (users \ {user}) \cup
        {[user EXCEPT !.hashed_password = hash_password(new_password, salt)]}

reset_password(token, new_password, salt) ==
    /\ IF ByToken(token) = {}
       THEN /\ call' = [Call("reset_password", None, 0, 400) EXCEPT
                          !.token = token, !.detail = "Invalid token"]
            /\ UNCHANGED <<users, password_reset_tokens, consumed>>
       ELSE \E reset_token \in ByToken(token) :
              IF Expired(reset_token)
              THEN /\ call' = [Call("reset_password", None, 0, 400) EXCEPT
                                 !.token = token, !.detail = "Token expired"]
                   /\ UNCHANGED <<users, password_reset_tokens, consumed>>
              ELSE IF ~ \E u \in users : u.id = reset_token.user_id
              THEN /\ call' = [Call("reset_password", None, 0, 404) EXCEPT
                                 !.token = token, !.detail = "User not found"]
                   /\ UNCHANGED <<users, password_reset_tokens, consumed>>
              ELSE \E user \in {u \in users : u.id = reset_token.user_id} :
                   /\ users' = SetPassword(user, new_password, salt)
                   /\ password_reset_tokens' = ConsumeToken(reset_token)
                   /\ consumed' = consumed \cup {token}
                   /\ call' = [Call("reset_password", user.id, 0, 200) EXCEPT
                                 !.token = token, !.new_password = new_password,
                                 !.detail = "Password updated successfully"]
    /\ UNCHANGED <<next_token, now, tx>>
    /\ ResourcesUnchanged

TokenStrings == 1..MaxTokens

NextAuth ==
    \/ Tick
    \/ \E email \in Emails, mail_fails \in BOOLEAN : forgot_password(email, mail_fails)
    \/ \E token \in TokenStrings, new_password \in Passwords, salt \in Salts :
         reset_password(token, new_password, salt)

SpecAuth == Init /\ [][NextAuth]_vars

\* C3: a reset_password request with a token that a reset_password has
\* already succeeded with is rejected as invalid and changes no credential
\* hash, whatever new password it carries.
C3_TokenSingleUse ==
    [][(call' # call /\ call'.op = "reset_password" /\ call'.token \in consumed) =>
          /\ call'.status = 400
          /\ call'.detail = "Invalid token"
          /\ users' = users]_vars

\* C3 witness: a reset_password was asked with a token consumed before.
C3_Witness ==
    /\ call.op = "reset_password" /\ call.token \in consumed
    /\ call.status = 400
    /\ \E u \in users : u \notin RegisteredUsers

---------------------------------------------------------------------------
(* Save requests as transactions.  Each worker runs a handler on a session  *)
(* of its own (get_db): a statement reads the rows committed when it        *)
(* starts and the session's own writes, a written row stays locked until    *)
(* the commit, and a statement that meets a row locked by another session   *)
(* waits for that session's commit.                                         *)

TableName(op) ==
    CASE op = "save_model" -> "saved_models"
      [] op = "save_gesture" -> "gesture_mappings"
      [] OTHER -> "music_sequences"

\* the tables of the other handlers are unused and no worker is in another one
OnTableOf(op) ==
    /\ \A other \in SaveOps \ {op} : Unused(TableName(other))
    /\ \A w \in Workers : tx[w].pc # "idle" => tx[w].op = op

SetTable(op, rows) ==
    IF op = "save_model"
    THEN saved_models' = rows /\ UNCHANGED <<gesture_mappings, music_sequences>>
    ELSE IF op = "save_gesture"
    THEN gesture_mappings' = rows /\ UNCHANGED <<saved_models, music_sequences>>
    ELSE music_sequences' = rows /\ UNCHANGED <<saved_models, gesture_mappings>>

LockedByOthers(w) == UNION {tx[v].locks : v \in Workers \ {w}}

\* UPDATE ... SET is_active = false on the rows with these ids
DeactivateRows(table, ids) ==
    {IF r.id \in ids THEN [r EXCEPT !.is_active = FALSE] ELSE r : r \in table}

\* the table as the worker's statements read it
View(w) == DeactivateRows(TableOf(tx[w].op), tx[w].deactivated)

\* T(user_id=..., name=..., data=..., is_active=... / is_public=...)
NewRow(t) ==
    IF t.op = "save_model"
    THEN [id |-> t.id, user_id |-> t.user, name |-> t.name, data |-> t.data,
          is_public |-> t.is_public, created_at |-> now]
    ELSE [id |-> t.id, user_id |-> t.user, name |-> t.name, data |-> t.data,
          is_active |-> t.is_active, is_public |-> FALSE, created_at |-> now]

\* the attributes the handler set on the loaded row to another value
Changed(t) ==
    \/ t.data # t.loaded.data
    \/ IF t.op = "save_model" THEN t.is_public # t.loaded.is_public
       ELSE t.is_active # t.loaded.is_active

\* the UPDATE of the flush: the columns whose attribute changed
Rewritten(t, r) ==
    LET d == IF t.data # t.loaded.data THEN [r EXCEPT !.data = t.data] ELSE r
    IN  IF t.op = "save_model"
        THEN IF t.is_public # t.loaded.is_public
             THEN [d EXCEPT !.is_public = t.is_public] ELSE d
        ELSE IF t.is_active # t.loaded.is_active
             THEN [d EXCEPT !.is_active = t.is_active] ELSE d

\* the request arrives: require_user, then the handler's body starts
save_begin(w, op, subject, name, data, flag) ==
    LET user == get_current_user(subject)
    IN  /\ tx[w].pc = "idle"
        /\ OnTableOf(op)
        /\ IF user = None THEN NotAuthenticated(op, 0)
           ELSE /\ tx' = [tx EXCEPT ![w] =
                      [IdleTx EXCEPT
                         !.pc = IF op # "save_model" /\ flag THEN "deactivate" ELSE "lookup",
                         !.op = op, !.user = user, !.name = name, !.data = data,
                         !.is_active = (op # "save_model" /\ flag),
                         !.is_public = (op = "save_model" /\ flag)]]
                /\ UNCHANGED <<call, resources, next_id>>
                /\ AuthUnchanged

\* if req.is_active: the bulk UPDATE starts and reads the owner's committed rows
save_deactivate_scan(w) ==
    /\ tx[w].pc = "deactivate"
    /\ tx' = [tx EXCEPT ![w].pc = "deactivate_rows",
                        ![w].snapshot =
                           {r.id : r \in {x \in TableOf(tx[w].op) : x.user_id = tx[w].user}}]
    /\ UNCHANGED <<call, resources, next_id>>
    /\ AuthUnchanged

\* the bulk UPDATE writes (and locks) the rows it read, once none is locked
save_deactivate_rows(w) ==
    /\ tx[w].pc = "deactivate_rows"
    /\ tx[w].snapshot \cap LockedByOthers(w) = {}
    /\ tx' = [tx EXCEPT ![w].pc = "lookup",
                        ![w].deactivated = tx[w].snapshot \cap Ids(TableOf(tx[w].op)),
                        ![w].locks = tx[w].snapshot \cap Ids(TableOf(tx[w].op))]
    /\ UNCHANGED <<call, resources, next_id>>
    /\ AuthUnchanged

\* existing = db.query(T).filter(user_id == user.id, name == req.name).first()
save_lookup(w) ==
    LET matching == ByOwnerName(View(w), tx[w].user, tx[w].name)
    IN  /\ tx[w].pc = "lookup"
        /\ IF matching = {}
           THEN tx' = [tx EXCEPT ![w].pc = "flush", ![w].loaded = NoRow]
           ELSE \E existing \in matching :
                  tx' = [tx EXCEPT ![w].pc = "flush", ![w].loaded = existing,
                                   ![w].id = existing.id]
        /\ UNCHANGED <<call, resources, next_id>>
        /\ AuthUnchanged

\* db.commit(), first half: the flush sends the UPDATE of the loaded row (it
\* waits while another session holds the row) or the INSERT (the primary key
\* is drawn from the sequence)
save_flush(w) ==
    /\ tx[w].pc = "flush"
    /\ IF tx[w].loaded.id # 0
       THEN /\ Changed(tx[w]) => tx[w].loaded.id \notin LockedByOthers(w)
            /\ tx' = [tx EXCEPT ![w].pc = "commit",
                                ![w].locks = IF Changed(tx[w])
                                             THEN @ \cup {tx[w].loaded.id} ELSE @]
            /\ next_id' = next_id
       ELSE /\ MayInsert
            /\ tx' = [tx EXCEPT ![w].pc = "commit",
                                ![w].id = next_id[TableName(tx[w].op)]]
            /\ next_id' = [next_id EXCEPT ![TableName(tx[w].op)] = @ + 1]
    /\ UNCHANGED <<call, resources>>
    /\ AuthUnchanged

\* db.commit(), second half: the session's writes become the committed rows
save_commit(w) ==
    LET t == tx[w]
        deactivated == DeactivateRows(TableOf(t.op), t.deactivated)
    IN  /\ t.pc = "commit"
        /\ SetTable(t.op,
              IF t.loaded.id # 0
              THEN {IF r.id = t.loaded.id THEN Rewritten(t, r) ELSE r : r \in deactivated}
              ELSE deactivated \cup {NewRow(t)})
        /\ tx' = [tx EXCEPT ![w].pc = "done", ![w].locks = {}, ![w].status = 200]
        /\ UNCHANGED <<call, next_id>>
        /\ AuthUnchanged

\* no worker has taken a request yet
Unstarted == \A w \in Workers : tx[w].pc = "idle"

\* The store is first filled by save requests handled one after the other;
\* then each worker takes one save request and runs it to its response, which
\* it holds at "done".
NextSaveRace ==
    \/ Unstarted /\ \E subject \in RaceRequesters, name \in Names, flag \in BOOLEAN :
          \/ OnModels /\ save_model(subject, name, "d1", flag)
          \/ OnGestures /\ save_gesture(subject, name, "d1", flag)
          \/ OnSequences /\ save_piano_sequence(subject, name, "d1", flag)
    \/ \E w \in Workers :
          \/ \E op \in SaveOps, subject \in RaceRequesters, name \in Names,
                data \in Payloads, flag \in BOOLEAN :
                  save_begin(w, op, subject, name, data, flag)
          \/ save_deactivate_scan(w)
          \/ save_deactivate_rows(w)
          \/ save_lookup(w)
          \/ save_flush(w)
          \/ save_commit(w)

SpecSaveRace == Init /\ [][NextSaveRace]_vars

\* both workers have committed a save
BothCommitted(w1, w2) ==
    /\ w1 # w2
    /\ tx[w1].pc = "done" /\ tx[w1].status = 200
    /\ tx[w2].pc = "done" /\ tx[w2].status = 200
    /\ tx[w1].op = tx[w2].op /\ tx[w1].op \in SaveOps
    /\ tx[w1].user = tx[w2].user

\* C2: after two save requests of one owner for one kind, with different names
\* and is_active = true, running as transactions of their own, have both
\* committed, exactly one row of that owner and kind is active.
C2_OneActiveAfterBoth ==
    \A w1, w2 \in Workers :
       (/\ BothCommitted(w1, w2)
        /\ tx[w1].is_active /\ tx[w2].is_active
        /\ tx[w1].name # tx[w2].name)
       => Cardinality(ActiveOf(TableOf(tx[w1].op), tx[w1].user)) = 1

\* C6: save requests of one owner with one name running as transactions never
\* leave two rows of a kind with that (owner, name).
C6_StoreKeepsNamesUnique ==
    \A w1, w2 \in Workers :
       (BothCommitted(w1, w2) /\ tx[w1].name = tx[w2].name)
       => Cardinality(ByOwnerName(TableOf(tx[w1].op), tx[w1].user, tx[w1].name)) = 1

---------------------------------------------------------------------------
(* reset_password requests as transactions: each worker takes one request   *)
(* and runs it on a session of its own.  Tokens are issued by               *)
(* forgot_password requests handled one at a time.                          *)

\* the request arrives
reset_begin(w, token, new_password, salt) ==
    /\ tx[w].pc = "idle"
    /\ tx' = [tx EXCEPT ![w] =
                [IdleTx EXCEPT !.pc = "lookup", !.op = "reset_password",
                               !.token = token, !.new_password = new_password,
                               !.salt = salt]]
    /\ UNCHANGED <<users, password_reset_tokens, next_token, now, consumed, call>>
    /\ ResourcesUnchanged

\* the token row is looked up and its expiry checked; the user is loaded and
\* its hashed_password attribute set
reset_lookup(w) ==
    /\ tx[w].pc = "lookup"
    /\ tx[w].op = "reset_password"
    /\ IF ByToken(tx[w].token) = {}
       THEN tx' = [tx EXCEPT ![w].pc = "done", ![w].status = 400,
                             ![w].detail = "Invalid token"]
       ELSE \E reset_token \in ByToken(tx[w].token) :
              IF Expired(reset_token)
              THEN tx' = [tx EXCEPT ![w].pc = "done", ![w].status = 400,
                                    ![w].detail = "Token expired"]
              ELSE IF ~ \E u \in users : u.id = reset_token.user_id
              THEN tx' = [tx EXCEPT ![w].pc = "done", ![w].status = 404,
                                    ![w].detail = "User not found"]
              ELSE tx' = [tx EXCEPT ![w].pc = "flush", ![w].loaded = reset_token,
                                    ![w].user = reset_token.user_id]
    /\ UNCHANGED <<users, password_reset_tokens, next_token, now, consumed, call>>
    /\ ResourcesUnchanged

\* db.commit(), first half: the flush sends the UPDATE of the users row (it
\* waits while another session holds the row) and then the DELETE of the
\* token row
reset_flush(w) ==
    /\ tx[w].pc = "flush"
    /\ tx[w].op = "reset_password"
    /\ tx[w].user \notin LockedByOthers(w)
    /\ tx' = [tx EXCEPT ![w].pc = "commit", ![w].locks = {tx[w].user}]
    /\ UNCHANGED <<users, password_reset_tokens, next_token, now, consumed, call>>
    /\ ResourcesUnchanged

\* db.commit(), second half: the hash is written to the users row; the DELETE
\* removes the token row if it is still there (a DELETE that matches no row
\* is not an error)
reset_commit(w) ==
    /\ tx[w].pc = "commit"
    /\ tx[w].op = "reset_password"
    /\ users' = {IF u.id = tx[w].user
                 THEN [u EXCEPT !.hashed_password =
                                   hash_password(tx[w].new_password, tx[w].salt)]
                 ELSE u : u \in users}
    /\ password_reset_tokens' = ConsumeToken(tx[w].loaded)
    /\ consumed' = consumed \cup {tx[w].token}
    /\ tx' = [tx EXCEPT ![w].pc = "done", ![w].locks = {}, ![w].status = 200,
                        ![w].detail = "Password updated successfully"]
    /\ UNCHANGED <<next_token, now, call>>
    /\ ResourcesUnchanged

NextResetRace ==
    \/ Tick
    \/ Unstarted /\ \E email \in Emails : forgot_password(email, FALSE)
    \/ \E w \in Workers :
          \/ \E token \in TokenStrings, new_password \in Passwords, salt \in Salts :
                reset_begin(w, token, new_password, salt)
          \/ reset_lookup(w)
          \/ reset_flush(w)
          \/ reset_commit(w)

SpecResetRace == Init /\ [][NextResetRace]_vars

\* C4: of two reset_password requests with one token running as transactions
\* of their own, at most one succeeds; the other is rejected with 400 and the
\* stored hash is the one the winner wrote.
C4_OneResetWins ==
    \A w1, w2 \in Workers :
       (/\ w1 # w2
        /\ tx[w1].op = "reset_password" /\ tx[w1].pc = "done"
        /\ tx[w2].op = "reset_password" /\ tx[w2].pc = "done"
        /\ tx[w1].token = tx[w2].token
        /\ tx[w1].status = 200)
       => /\ tx[w2].status = 400
          /\ \E u \in users :
               /\ u.id = tx[w1].user
               /\ u.hashed_password = hash_password(tx[w1].new_password, tx[w1].salt)

---------------------------------------------------------------------------
(* Outcomes and frames of delete and set_visibility; expired reset tokens *)

\* C11: delete and set_visibility by an authenticated caller answer 404
\* exactly when no row has the id, and 403 exactly when a row has the id and
\* belongs to another identity; a row of another owner is never answered 404.
C11_NotFoundVsForbidden ==
    [][(call'.op \in DeleteOps \cup VisibilityOps /\ call'.user # None) =>
          /\ call'.status = 404 <=> call'.id \notin Ids(TableOf(call'.op))
          /\ call'.status = 403 <=>
                \E r \in TableOf(call'.op) : r.id = call'.id /\ r.user_id # call'.user]_vars

\* the rows of a table other than the one with this id
Others(table, id) == {r \in table : r.id # id}

\* what a visibility request did to its table, given the table before and after
VisibilityFrame(before, after) ==
    /\ Others(after, call'.id) = Others(before, call'.id)
    /\ \A r \in ById(before, call'.id) :
          ById(after, call'.id) =
             {IF call'.status = 200 THEN [r EXCEPT !.is_public = call'.is_public] ELSE r}

C18_ExpiredTokenInert ==
    [][/\ now' >= now
       /\ \A t \in password_reset_tokens' \ password_reset_tokens :
             t.expires_at = now + ResetTokenTtl
       /\ \A t \in password_reset_tokens :
             t.expires_at < now => t \in password_reset_tokens'
       /\ (call' # call /\ call'.op = "reset_password") =>
             IF ByToken(call'.token) = {}
             THEN /\ call'.status = 400 /\ call'.detail = "Invalid token"
                  /\ UNCHANGED <<users, password_reset_tokens>>
             ELSE \A t \in ByToken(call'.token) :
                    t.expires_at < now =>
                       /\ call'.status = 400 /\ call'.detail = "Token expired"
                       /\ UNCHANGED <<users, password_reset_tokens>>]_vars

\* C18 witness: a reset_password came with an expired token; its row is there.
C18_Witness ==
    /\ call.op = "reset_password" /\ call.detail = "Token expired"
    /\ \E t \in ByToken(call.token) : t.expires_at < now

\* C17: when the send of the reset email raises, forgot_password still gives
\* its normal response (200) and the token row it committed stays.
C17_MailFailureSwallowed ==
    (call.op = "forgot_password" /\ call.token # 0) =>
        /\ call.status = 200
        /\ call.detail = "If that email exists, a reset link has been sent."

---------------------------------------------------------------------------
(* hash_password and verify_password on their own (auth.py) *)

\* a password of one byte more than bcrypt reads, ending in c
Long(c) == [i \in 1..(BcryptMaxBytes + 1) |-> IF i > BcryptMaxBytes THEN c ELSE "p"]

HashInputs ==
    Passwords \cup {<<>>, <<"p">>, [i \in 1..BcryptMaxBytes |-> "p"], Long("x"), Long("y")}

\* hash_password(password): the hash is held for the verifications to come
hash_applied(password, salt) ==
    /\ call' = [Call("hash_password", None, 0, 0) EXCEPT
                  !.data = password, !.body = <<hash_password(password, salt)>>]
    /\ UNCHANGED <<users, password_reset_tokens, next_token, now, consumed, tx>>
    /\ ResourcesUnchanged

\* verify_password(plain_password, hashed_password) on the hash held
verify_applied(plain_password) ==
    /\ call.op \in {"hash_password", "verify_password"}
    /\ call' = [call EXCEPT
                  !.op = "verify_password", !.name = plain_password,
                  !.status = IF verify_password(plain_password, call.body[1])
                             THEN 200 ELSE 401]
    /\ UNCHANGED <<users, password_reset_tokens, next_token, now, consumed, tx>>
    /\ ResourcesUnchanged

NextHash ==
    \/ \E password \in HashInputs, salt \in Salts : hash_applied(password, salt)
    \/ \E plain_password \in HashInputs : verify_applied(plain_password)

SpecHash == Init /\ [][NextHash]_vars

\* C19: verify_password(p1, hash_password(p2)) is true exactly when p1 = p2,
\* for passwords longer than what bcrypt reads too.
C19_VerifyIffSamePassword ==
    call.op = "verify_password" => (call.status = 200 <=> call.name = call.data)

\* C19 witness: a password of 73 bytes was verified against the hash of one
\* that differs from it in the last byte only, and was refused.
C19_Witness ==
    /\ call.op = "verify_password"
    /\ call.data = Long("y")
    /\ call.name = Long("x")
    /\ call.status = 401

---------------------------------------------------------------------------
(* Accounts (main.py, Auth Endpoints), one request at a time *)

\* rows of users
MaxUsers == 4
\* access tokens the clients hold
MaxIssued == 1
\* the clock's last hour
MaxClock == 25
\* hours a long wait takes
SleepHours == 23

\* if len(req.new_password) < 6
MinPasswordLength == 6

Sol == <<"s", "o", "l">>

\* an account of a social login: it has no password hash
SocialUser == [id |-> 3, username |-> Sol, email |-> "s@x.com", hashed_password |-> NoHash]

\* UpdateProfileRequest.username = None
NoUsername == <<"None">>

SignupUsernames == {Amy, Cat}
SignupEmails == {"a@x.com", "c@x.com"}
LoginEmails == {"a@x.com", "s@x.com", "nobody@x.com"}
ProfileUsernames == {NoUsername, <<" ">>, <<" ", "c", "a", "t", " ">>, Bob}
NewPasswords == {Secret9, <<"p", "w">>}

\* tokens the deployment never handed out: signed with another key, signed
\* without "sub", and signed for an account whose row is gone from the store
BadTokens ==
    {Garbage,
     [kind |-> "jwt", sub |-> "1", exp |-> MaxClock + 1, key |-> "other-key"],
     [kind |-> "jwt", sub |-> NoSub, exp |-> MaxClock + 1, key |-> SECRET_KEY],
     [kind |-> "jwt", sub |-> "9", exp |-> MaxClock + 1, key |-> SECRET_KEY]}

\* what a request may carry as its bearer token
PresentedTokens == issued \cup BadTokens \cup {NoToken}

InitAccount ==
    /\ users = RegisteredUsers \cup {SocialUser}
    /\ password_reset_tokens = {}
    /\ saved_models = {}
    /\ gesture_mappings = {}
    /\ music_sequences = {}
    /\ next_id = [saved_models |-> 1, gesture_mappings |-> 1, music_sequences |-> 1,
                  users |-> Cardinality(RegisteredUsers) + 2]
    /\ next_token = 1
    /\ now = 0
    /\ call = NoCall
    /\ tx = [w \in Workers |-> IdleTx]
    /\ consumed = {}
    /\ issued = {}

\* a long wait
Sleep ==
    /\ now + SleepHours <= MaxClock
    /\ now' = now + SleepHours
    /\ UNCHANGED <<users, password_reset_tokens, next_token, consumed, call, tx>>
    /\ ResourcesUnchanged

RECURSIVE LStrip(_)
LStrip(s) == IF s # <<>> /\ Head(s) = " " THEN LStrip(Tail(s)) ELSE s

RECURSIVE RStrip(_)
RStrip(s) == IF s # <<>> /\ s[Len(s)] = " " THEN RStrip(SubSeq(s, 1, Len(s) - 1)) ELSE s

\* str.strip()
Strip(s) == RStrip(LStrip(s))

UserRow(id) == CHOOSE u \in users : u.id = id

\* the clients hold at most MaxIssued tokens
MayIssue(token) == token \in issued \/ Cardinality(issued) < MaxIssued

\* a faulty variant: the existence check finds nothing
AlreadyRegisteredNone(username, email) == {}

\* db.query(User).filter((User.email == req.email) | (User.username == req.username))
AlreadyRegistered(username, email) ==
    {u \in users : u.email = email \/ u.username = username}

signup(username, email, password, salt) ==
    LET id == next_id.users
        token == create_access_token(ToString(id))
        request == [Call("signup", None, 0, 0) EXCEPT
                      !.name = username, !.email = email, !.password = password]
    IN  /\ IF AlreadyRegistered(username, email) # {}
           THEN /\ call' = [request EXCEPT
                              !.status = 400,
                              !.detail = "Username or email already registered"]
                /\ UNCHANGED <<users, next_id, issued>>
           ELSE /\ Cardinality(users) < MaxUsers
                /\ MayIssue(token)
                /\ users' = users \cup
                      {[id |-> id, username |-> username, email |-> email,
                        hashed_password |-> hash_password(password, salt)]}
                /\ next_id' = [next_id EXCEPT !.users = @ + 1]
                /\ issued' = issued \cup {token}
                /\ call' = [request EXCEPT
                              !.status = 200, !.id = id, !.access_token = token]
        /\ UNCHANGED <<password_reset_tokens, next_token, now, consumed, tx, resources>>

\* a faulty variant: an account without a hash passes
PasswordMatchesAny(user, password) == TRUE

\* user.hashed_password and verify_password(req.password, user.hashed_password)
PasswordMatches(user, password) ==
    /\ user.hashed_password # NoHash
    /\ verify_password(password, user.hashed_password)

login(email, password) ==
    LET request == [Call("login", None, 0, 0) EXCEPT !.email = email, !.password = password]
        rejected == [request EXCEPT !.status = 401, !.detail = "Invalid email or password"]
    IN  /\ IF ByEmail(email) = {}
           THEN call' = rejected /\ UNCHANGED issued
           ELSE \E user \in ByEmail(email) :
                  IF ~PasswordMatches(user, password)
                  THEN call' = rejected /\ UNCHANGED issued
                  ELSE LET token == create_access_token(ToString(user.id))
                       IN  /\ MayIssue(token)
                           /\ issued' = issued \cup {token}
                           /\ call' = [request EXCEPT
                                         !.status = 200, !.id = user.id,
                                         !.access_token = token]
        /\ UNCHANGED <<users, next_id, password_reset_tokens, next_token, now,
                       consumed, tx, resources>>

\* require_user raised: 401 and nothing done
Unauthorized(op, token) ==
    /\ call' = [Call(op, None, 0, 401) EXCEPT
                  !.detail = "Not authenticated", !.bearer = token]
    /\ UNCHANGED <<users, password_reset_tokens, next_token, now, consumed, tx>>
    /\ ResourcesUnchanged

get_me(token) ==
    LET user == get_current_user(token_subject(token))
    IN  IF user = None THEN Unauthorized("get_me", token)
        ELSE /\ call' = [Call("get_me", user, user, 200) EXCEPT
                           !.bearer = token, !.name = UserRow(user).username,
                           !.email = UserRow(user).email]
             /\ UNCHANGED <<users, password_reset_tokens, next_token, now, consumed, tx>>
             /\ ResourcesUnchanged

\* mail_fails: the send of the notification raises; it is caught and printed
update_profile(token, username, mail_fails) ==
    LET user == get_current_user(token_subject(token))
        trimmed == Strip(username)
        request == [Call("update_profile", user, user, 0) EXCEPT
                      !.bearer = token, !.name = username]
    IN  IF user = None THEN Unauthorized("update_profile", token)
        ELSE
        /\ IF username = NoUsername
           THEN /\ call' = [request EXCEPT !.status = 200,
                                           !.body = <<UserRow(user).username>>]
                /\ users' = users
           ELSE IF trimmed = <<>>
           THEN /\ call' = [request EXCEPT !.status = 400,
                                           !.detail = "Username cannot be empty"]
                /\ users' = users
           ELSE IF \E u \in users : u.username = trimmed /\ u.id # user
           THEN /\ call' = [request EXCEPT !.status = 400,
                                           !.detail = "Username already taken"]
                /\ users' = users
           ELSE /\ users' = Replace(users, UserRow(user),
                                    [UserRow(user) EXCEPT !.username = trimmed])
                /\ call' = [request EXCEPT
                              !.status = 200, !.body = <<trimmed>>,
                              !.mail = IF trimmed # UserRow(user).username
                                       THEN UserRow(user).email ELSE ""]
        /\ UNCHANGED <<password_reset_tokens, next_token, now, consumed, tx>>
        /\ ResourcesUnchanged

\* a faulty variant: no new password is too short
TooShortNever(new_password) == FALSE

\* len(req.new_password) < 6
TooShort(new_password) == Len(new_password) < MinPasswordLength

\* mail_fails: the send of the notification raises; it is caught and printed
update_password(token, current_password, new_password, salt, mail_fails) ==
    LET user == get_current_user(token_subject(token))
        request == [Call("update_password", user, user, 0) EXCEPT
                      !.bearer = token, !.password = current_password,
                      !.new_password = new_password]
    IN  IF user = None THEN Unauthorized("update_password", token)
        ELSE
        /\ IF ~verify_password(current_password, UserRow(user).hashed_password)
           THEN /\ call' = [request EXCEPT !.status = 400,
                                           !.detail = "Current password is incorrect"]
                /\ users' = users
           ELSE IF TooShort(new_password)
           THEN /\ call' = [request EXCEPT
                              !.status = 400,
                              !.detail = "New password must be at least 6 characters"]
                /\ users' = users
           ELSE /\ users' = SetPassword(UserRow(user), new_password, salt)
                /\ call' = [request EXCEPT !.status = 200,
                                           !.mail = UserRow(user).email,
                                           !.detail = "Password updated successfully"]
        /\ UNCHANGED <<password_reset_tokens, next_token, now, consumed, tx>>
        /\ ResourcesUnchanged

NextAccount ==
    \/ Tick
    \/ Sleep
    \/ \E username \in SignupUsernames, email \in SignupEmails, password \in Passwords :
         signup(username, email, password, "s1")
    \/ \E email \in LoginEmails, password \in Passwords : login(email, password)
    \/ \E token \in PresentedTokens :
         \/ get_me(token)
         \/ \E username \in ProfileUsernames, mail_fails \in BOOLEAN :
              update_profile(token, username, mail_fails)
         \/ \E current_password \in Passwords, new_password \in NewPasswords,
               mail_fails \in BOOLEAN :
              update_password(token, current_password, new_password, "s2", mail_fails)
         \/ delete_gesture_mapping(token_subject(token), 1)

SpecAccount == InitAccount /\ [][NextAccount]_vars

---------------------------------------------------------------------------
(* Properties of the accounts and their access tokens *)

\* the identity a request with this bearer token runs with
TokenIdentity(token) == get_current_user(token_subject(token))

StoreUnchanged ==
    UNCHANGED <<users, password_reset_tokens, resources, next_id, issued, consumed>>

\* C12: an access token handed out at hour t for the identity s carries
\* exp = t + 1440 minutes; it resolves to s at every hour before its exp and
\* to no identity at every hour after it; a token handed out is never changed.
C12_TokenLifetime ==
    /\ [](\A token \in issued :
            /\ now < token.exp =>
                  /\ TokenIdentity(token) # None
                  /\ ToString(TokenIdentity(token)) = token.sub
            /\ now > token.exp => TokenIdentity(token) = None)
    /\ [][/\ issued \subseteq issued'
          /\ \A token \in issued' \ issued :
                /\ token.exp * 60 = now * 60 + 1440
                /\ token = call'.access_token
                /\ token.sub = ToString(call'.id)
                /\ \E u \in users' : u.id = call'.id]_vars

\* C12 witness: a request came with a token handed out a day and an hour
\* before, and was refused.
C12_Witness ==
    /\ call.op = "get_me" /\ call.status = 401
    /\ call.bearer \in issued
    /\ now > call.bearer.exp

\* a bearer token that is absent, malformed, wrongly signed, expired, without
\* subject, or of a subject that has no users row
InvalidToken(token) ==
    \/ token = NoToken
    \/ token.kind # "jwt"
    \/ token.key # SECRET_KEY
    \/ token.exp < now
    \/ token.sub = NoSub
    \/ ~ \E u \in users : ToString(u.id) = token.sub

GuardedOps == {"get_me", "update_profile", "update_password", "delete_gesture_mapping"}

\* C13: a bearer token that is absent, malformed, wrongly signed, expired,
\* without subject or of a subject without users row resolves to no identity,
\* any other to the identity whose id is its subject; a guarded handler that
\* gets no identity answers 401 "Not authenticated", the same for each of
\* these cases, and changes nothing in the store; one that gets an identity
\* runs with it.
C13_UniformNotAuthenticated ==
    /\ [](\A token \in PresentedTokens :
            IF InvalidToken(token) THEN TokenIdentity(token) = None
            ELSE ToString(TokenIdentity(token)) = token.sub)
    /\ [][(call' # call /\ call'.op \in GuardedOps) =>
            /\ call'.user = None =>
                  /\ [call' EXCEPT !.bearer = NoToken] =
                        [Call(call'.op, None, call'.id, 401) EXCEPT
                           !.detail = "Not authenticated"]
                  /\ StoreUnchanged
            /\ call'.user # None =>
                  /\ call'.status # 401
                  /\ \E u \in users : u.id = call'.user
            /\ call'.op # "delete_gesture_mapping" =>
                  /\ call'.user = None <=> InvalidToken(call'.bearer)
                  /\ call'.user # None => ToString(call'.user) = call'.bearer.sub]_vars

\* C13 witness: update_password came with a well signed token of a subject
\* that has no users row, and was answered 401.
C13_Witness ==
    /\ call.op = "update_password" /\ call.status = 401
    /\ call.bearer.key = SECRET_KEY /\ call.bearer.sub = "9"

\* C15: a signup whose email or username is that of a users row is answered
\* 400 "Username or email already registered", adds no row, hands out no
\* token and leaves every row as it is; any other signup adds exactly one
\* row, with the username, the email and a hash of the password of the
\* request, and returns a token whose subject is the id of that row.
C15_SignupDuplicate ==
    [][(call' # call /\ call'.op = "signup") =>
          IF \E u \in users : u.email = call'.email \/ u.username = call'.name
          THEN /\ call'.status = 400
               /\ call'.detail = "Username or email already registered"
               /\ call'.access_token = NoToken
               /\ StoreUnchanged
          ELSE /\ call'.status = 200
               /\ call'.id \notin Ids(users)
               /\ \E new \in users' :
                    /\ users' = users \cup {new}
                    /\ new.id = call'.id
                    /\ new.username = call'.name
                    /\ new.email = call'.email
                    /\ verify_password(call'.password, new.hashed_password)
               /\ call'.access_token.kind = "jwt"
               /\ ParseId(call'.access_token.sub) = call'.id
               /\ issued' = issued \cup {call'.access_token}]_vars

\* C15 witness: a signup with a fresh username and the email of an account
\* was refused.
C15_Witness ==
    /\ call.op = "signup" /\ call.status = 400
    /\ call.name = Cat /\ call.email = "a@x.com"
    /\ ~ \E u \in users : u.username = Cat

\* C16: login answers the one response 401 "Invalid email or password" when
\* no account has the email, when the account has no hash and when the
\* password does not verify, and then changes nothing; it returns a token,
\* whose subject is the id of the account, only when the password verifies
\* against the stored hash.
C16_LoginUniform ==
    [][(call' # call /\ call'.op = "login") =>
          LET matching == {u \in users : /\ u.email = call'.email
                                         /\ u.hashed_password # NoHash
                                         /\ verify_password(call'.password,
                                                            u.hashed_password)}
          IN  IF matching = {}
              THEN /\ call' = [Call("login", None, 0, 401) EXCEPT
                                 !.detail = "Invalid email or password",
                                 !.email = call'.email, !.password = call'.password]
                   /\ StoreUnchanged
              ELSE /\ call'.status = 200
                   /\ \E u \in matching :
                        /\ call'.id = u.id
                        /\ call'.access_token.kind = "jwt"
                        /\ ParseId(call'.access_token.sub) = u.id
                   /\ users' = users]_vars

\* C16 witness: a login with the email of an account without hash was refused.
C16_Witness ==
    /\ call.op = "login" /\ call.status = 401
    /\ call.email = "s@x.com"
    /\ \E u \in users : u.email = call.email /\ u.hashed_password = NoHash

---------------------------------------------------------------------------
(* signup and update_profile as transactions.  users.username and           *)
(* users.email are declared unique=True: the store keeps a unique index on  *)
(* each, which an INSERT or UPDATE meets when it is flushed.                *)

RaceUsernames == {Cat, Bob}
RaceEmails == {"c@x.com", "b@x.com"}
RaceRenames == {<<" ", "c", "a", "t", " ">>, Bob}

\* the row the worker's flush writes
PendingRow(t) ==
    IF t.op = "signup"
    THEN [id |-> t.id, username |-> t.name, email |-> t.email,
          hashed_password |-> hash_password(t.new_password, t.salt)]
    ELSE [UserRow(t.user) EXCEPT !.username = t.name]

\* the flush has a statement to send: the INSERT, or the UPDATE of a username
\* that is not the one loaded
Writes(t) == t.op = "signup" \/ t.name # UserRow(t.user).username

\* two rows the unique indexes do not take together
SameKey(a, b) == a.id # b.id /\ (a.username = b.username \/ a.email = b.email)

\* a faulty variant: the table has no unique index
UniqueViolationNone(row) == FALSE

\* the unique index finds a committed row with the username or the email
UniqueViolation(row) == \E u \in users : SameKey(u, row)

\* another session has written, and not yet committed, the same row or a row
\* with the same username or email: the statement waits for its commit
MustWait(w, row) ==
    \E v \in Workers \ {w} :
       /\ tx[v].pc = "commit"
       /\ tx[v].op \in {"signup", "update_profile"}
       /\ Writes(tx[v])
       /\ \/ SameKey(PendingRow(tx[v]), row)
          \/ PendingRow(tx[v]).id = row.id

AccountFrame == UNCHANGED <<password_reset_tokens, next_token, now, consumed, resources>>

signup_begin(w, username, email, password, salt) ==
    /\ tx[w].pc = "idle"
    /\ tx' = [tx EXCEPT ![w] =
                [IdleTx EXCEPT !.pc = "check", !.op = "signup", !.name = username,
                               !.email = email, !.new_password = password,
                               !.salt = salt]]
    /\ UNCHANGED <<users, next_id, issued, call>>
    /\ AccountFrame

\* require_user, then the handler up to its query
update_profile_begin(w, token, username) ==
    LET user == get_current_user(token_subject(token))
    IN  /\ tx[w].pc = "idle"
        /\ username # NoUsername
        /\ IF user = None THEN Unauthorized("update_profile", token)
           ELSE /\ tx' = [tx EXCEPT ![w] =
                           IF Strip(username) = <<>>
                           THEN [IdleTx EXCEPT
                                   !.pc = "done", !.op = "update_profile",
                                   !.user = user, !.bearer = token, !.status = 400,
                                   !.detail = "Username cannot be empty"]
                           ELSE [IdleTx EXCEPT
                                   !.pc = "check", !.op = "update_profile",
                                   !.user = user, !.id = user, !.bearer = token,
                                   !.name = Strip(username)]]
                /\ UNCHANGED <<users, next_id, issued, call>>
                /\ AccountFrame

\* the existence check of the handler, on the committed rows
account_check(w) ==
    LET t == tx[w]
        taken == IF t.op = "signup" THEN AlreadyRegistered(t.name, t.email) # {}
                 ELSE \E u \in users : u.username = t.name /\ u.id # t.user
    IN  /\ t.pc = "check"
        /\ t.op \in {"signup", "update_profile"}
        /\ tx' = [tx EXCEPT ![w] =
                    IF taken
                    THEN [t EXCEPT !.pc = "done", !.status = 400,
                                   !.detail = IF t.op = "signup"
                                              THEN "Username or email already registered"
                                              ELSE "Username already taken"]
                    ELSE [t EXCEPT !.pc = "flush"]]
        /\ UNCHANGED <<users, next_id, issued, call>>
        /\ AccountFrame

\* db.commit(), first half: the flush sends the INSERT (its id drawn from the
\* sequence) or the UPDATE; the unique index raises IntegrityError, which no
\* handler catches
account_flush(w) ==
    LET t == [tx[w] EXCEPT !.id = IF tx[w].op = "signup" THEN next_id.users ELSE @]
        row == PendingRow(t)
    IN  /\ tx[w].pc = "flush"
        /\ t.op \in {"signup", "update_profile"}
        /\ t.op = "signup" => next_id.users <= MaxUsers
        /\ Writes(t) => ~MustWait(w, row)
        /\ tx' = [tx EXCEPT ![w] =
                    IF Writes(t) /\ UniqueViolation(row)
                    THEN [t EXCEPT !.pc = "done", !.status = 500,
                                   !.detail = "Internal Server Error"]
                    ELSE [t EXCEPT !.pc = "commit"]]
        /\ next_id' = IF t.op = "signup" THEN [next_id EXCEPT !.users = @ + 1]
                      ELSE next_id
        /\ UNCHANGED <<users, issued, call, saved_models, gesture_mappings,
                       music_sequences, password_reset_tokens, next_token, now,
                       consumed>>

\* db.commit(), second half, and the response: signup signs a token
account_commit(w) ==
    LET t == tx[w]
    IN  /\ t.pc = "commit"
        /\ t.op \in {"signup", "update_profile"}
        /\ users' = IF t.op = "signup" THEN users \cup {PendingRow(t)}
                    ELSE {IF u.id = t.user THEN [u EXCEPT !.username = t.name] ELSE u :
                          u \in users}
        /\ issued' = IF t.op = "signup"
                     THEN issued \cup {create_access_token(ToString(t.id))}
                     ELSE issued
        /\ tx' = [tx EXCEPT ![w].pc = "done", ![w].status = 200]
        /\ UNCHANGED <<next_id, call>>
        /\ AccountFrame

\* A client logs in; then each worker takes one signup or update_profile
\* request and runs it to its response, which it holds at "done".
NextAccountRace ==
    \/ Unstarted /\ \E email \in Emails, password \in Passwords : login(email, password)
    \/ \E w \in Workers :
          \/ \E username \in RaceUsernames, email \in RaceEmails :
                signup_begin(w, username, email, Hunter2, "s1")
          \/ \E token \in PresentedTokens, username \in RaceRenames :
                update_profile_begin(w, token, username)
          \/ account_check(w)
          \/ account_flush(w)
          \/ account_commit(w)

SpecAccountRace == Init /\ [][NextAccountRace]_vars

\* C14: in every state, signup and update_profile requests running as
\* transactions included, no two users rows have the same username and no two
\* the same email.
C14_UniqueUsernameEmail ==
    \A u1, u2 \in users :
       (u1.username = u2.username \/ u1.email = u2.email \/ u1.id = u2.id) => u1 = u2

\* C14 witness: a signup and a rename to one username both passed the
\* existence check; the rename committed and the unique index refused the
\* signup.
C14_Witness ==
    \E w1, w2 \in Workers :
       /\ tx[w1].op = "signup" /\ tx[w1].pc = "done" /\ tx[w1].status = 500
       /\ tx[w2].op = "update_profile" /\ tx[w2].pc = "done" /\ tx[w2].status = 200
       /\ tx[w1].name = tx[w2].name
       /\ \E u \in users : u.id = tx[w2].user /\ u.username = tx[w2].name

---------------------------------------------------------------------------
(* Frames of delete and save; listings *)

\* C21: a delete of a gesture mapping or a music sequence removes the row
\* with its id and leaves every other row of the table as it is, is_active
\* included: after the delete of the owner's active row the owner has no
\* active row of that kind.
C21_DeleteNoPromotion ==
    [][(call'.op \in {"delete_gesture_mapping", "delete_piano_sequence"}
          /\ call'.status = 200) =>
          LET before == TableOf(call'.op)
              after == IF call'.op = "delete_gesture_mapping"
                       THEN gesture_mappings' ELSE music_sequences'
          IN  /\ after = Others(before, call'.id)
              /\ (\E r \in before : r.id = call'.id /\ r.is_active)
                    => ActiveOf(after, call'.user) = {}]_vars

\* C21 witness: the owner deleted the active one of two gesture mappings.
C21_Witness ==
    /\ call.op = "delete_gesture_mapping" /\ call.status = 200
    /\ call.id \notin Ids(gesture_mappings)
    /\ \E r \in gesture_mappings : r.user_id = call.user /\ ~r.is_active
    /\ ActiveOf(gesture_mappings, call.user) = {}
    /\ next_id.gesture_mappings > MaxRows

---------------------------------------------------------------------------
(* The listings (main.py): list_my_models, get_gestures,                   *)
(* get_piano_sequences and the community listings.  A response body is the *)
(* sequence of the ids of the rows it lists.                               *)

\* a faulty variant: the listing does not filter on the owner
ByOwnerAll(table, user) == table

\* .filter(T.user_id == user.id)
ByOwner(table, user) == {r \in table : r.user_id = user}

\* a listing of the caller's rows of a table; ordered: the query has
\* .order_by(T.created_at.desc()), otherwise the rows come in any order
list_mine(op, subject, table, ordered) ==
    LET user == get_current_user(subject)
    IN  /\ IF user = None THEN call' = Call(op, None, 0, 401)
           ELSE \E results \in IF ordered THEN OrderByCreatedDesc(ByOwner(table, user))
                                ELSE Orderings(ByOwner(table, user)) :
                  call' = [Call(op, user, 0, 200) EXCEPT !.body = RowIdsOf(results)]
        /\ UNCHANGED <<resources, next_id, tx>>
        /\ AuthUnchanged

\* .filter(SavedModel.user_id == user.id).order_by(SavedModel.created_at.desc()).all()
list_my_models(subject) == list_mine("list_my_models", subject, saved_models, TRUE)

\* .filter(GestureMapping.user_id == user.id).all(): no order is asked for
get_gestures(subject) == list_mine("get_gestures", subject, gesture_mappings, FALSE)

\* .filter(MusicSequence.user_id == user.id).all(): no order is asked for
get_piano_sequences(subject) ==
    list_mine("get_piano_sequences", subject, music_sequences, FALSE)

\* .join(models.User).filter(T.is_public == True), then the search if given
CommunityRows(table, search) ==
    {r \in table : /\ r.is_public
                   /\ \E u \in users : u.id = r.user_id
                   /\ search # NoName => ILike(r.name, search)}

\* a community listing of gesture mappings or music sequences
list_community(op, table, search, limit, offset) ==
    /\ IF limit < 1 \/ limit > MaxLimit \/ offset < 0
       THEN call' = [Call(op, None, 0, 422) EXCEPT !.name = search]
       ELSE \E results \in OrderByCreatedDesc(CommunityRows(table, search)) :
              call' = [Call(op, None, 0, 200) EXCEPT
                         !.name = search,
                         !.body = RowIdsOf(OffsetLimit(results, offset, limit))]
    /\ UNCHANGED <<resources, next_id, tx>>
    /\ AuthUnchanged

list_community_gestures(search, limit, offset) ==
    list_community("list_community_gestures", gesture_mappings, search, limit, offset)

list_community_piano(search, limit, offset) ==
    list_community("list_community_piano", music_sequences, search, limit, offset)

\* the saves, the visibility changes and the listings, while the clock runs
NextList ==
    \/ Tick
    \/ SaveRequests({"d1"})
    \/ \E subject \in UserIds, id \in RowIds :
         \/ OnModels /\ update_model_visibility(subject, id, TRUE)
         \/ OnGestures /\ update_gesture_visibility(subject, id, TRUE)
         \/ OnSequences /\ update_piano_visibility(subject, id, TRUE)
    \/ \E subject \in Requesters :
         \/ OnModels /\ list_my_models(subject)
         \/ OnGestures /\ get_gestures(subject)
         \/ OnSequences /\ get_piano_sequences(subject)
    \/ \E search \in {NoName, <<"a">>}, limit \in Limits, offset \in Offsets :
         \/ OnModels /\ list_community_models(search, limit, offset)
         \/ OnGestures /\ list_community_gestures(search, limit, offset)
         \/ OnSequences /\ list_community_piano(search, limit, offset)

SpecList == Init /\ [][NextList]_vars

MineOps == {"list_my_models", "get_gestures", "get_piano_sequences"}
CommunityOps ==
    {"list_community_models", "list_community_gestures", "list_community_piano"}

\* the table a listing reads
ListedTable(op) ==
    CASE op \in {"list_my_models", "list_community_models"} -> saved_models
      [] op \in {"get_gestures", "list_community_gestures"} -> gesture_mappings
      [] OTHER -> music_sequences

C23_NewestFirstThenId ==
    (call.op \in MineOps \cup CommunityOps /\ call.status = 200) =>
        \A i, j \in 1..Len(call.body) : i < j =>
           \E a, b \in ListedTable(call.op) :
              /\ a.id = call.body[i] /\ b.id = call.body[j]
              /\ \/ a.created_at > b.created_at
                 \/ a.created_at = b.created_at /\ a.id < b.id

---------------------------------------------------------------------------
(* The saves over the three tables together *)

\* the save handlers, each on its own table, in any interleaving
NextSaveAll ==
    \E subject \in Requesters, name \in Names, data \in Payloads, flag \in BOOLEAN :
       \/ save_model(subject, name, data, flag)
       \/ save_gesture(subject, name, data, flag)
       \/ save_piano_sequence(subject, name, data, flag)

SpecSaveAll == Init /\ [][NextSaveAll]_vars

\* the rows of a table that belong to other identities than this one
NotOwnedBy(table, user) == {r \in table : r.user_id # user}

\* C27: a save changes no row of another owner in the table it writes, and
\* no row at all in the tables of the other kinds, also when another owner
\* has a row of the same name.
C27_SaveFrame ==
    [][(call'.op \in SaveOps /\ call'.status = 200) =>
          /\ NotOwnedBy(saved_models', call'.user) = NotOwnedBy(saved_models, call'.user)
          /\ NotOwnedBy(gesture_mappings', call'.user)
                = NotOwnedBy(gesture_mappings, call'.user)
          /\ NotOwnedBy(music_sequences', call'.user)
                = NotOwnedBy(music_sequences, call'.user)
          /\ call'.op # "save_model" => saved_models' = saved_models
          /\ call'.op # "save_gesture" => gesture_mappings' = gesture_mappings
          /\ call'.op # "save_piano_sequence" => music_sequences' = music_sequences]_vars

\* C27 witness: an identity saved an active gesture mapping under a name
\* that an active gesture mapping of another identity has, with another
\* payload; the other identity's row is as it was.
C27_Witness ==
    /\ call.op = "save_gesture" /\ call.status = 200 /\ call.is_active
    /\ \E mine, theirs \in gesture_mappings :
          /\ mine.id = call.id /\ mine.user_id = call.user
          /\ theirs.user_id # call.user /\ theirs.name = call.name
          /\ theirs.is_active /\ theirs.data # call.data /\ theirs.id < mine.id

\* C27 witness of the other kinds: a saved model was stored while another
\* identity has a music sequence of the same name.
C27_WitnessKinds ==
    /\ call.op = "save_model" /\ call.status = 200
    /\ \E s \in music_sequences : s.user_id # call.user /\ s.name = call.name

---------------------------------------------------------------------------
(* Frames and effects of the password changes *)

\* C28: a successful reset_password rewrites the hash of the token's owner
\* and nothing else of the users table, and deletes the row of the token it
\* was given and no other row: the other tokens, those of the same identity
\* included, stay in the table as they were.
C28_ResetFrame ==
    [][(call' # call /\ call'.op = "reset_password" /\ call'.status = 200) =>
          /\ \A u \in users : u.id # call'.user => u \in users'
          /\ \A u \in users' :
                \E old \in users :
                   /\ old.id = u.id
                   /\ [u EXCEPT !.hashed_password = old.hashed_password] = old
          /\ password_reset_tokens' =
                {t \in password_reset_tokens : t.token # call'.token}
          /\ \E t \in password_reset_tokens :
                t.token = call'.token /\ t.user_id = call'.user]_vars

\* C28 witness: a reset succeeded while the same identity holds another
\* token that has not expired, and another identity has its hash.
C28_Witness ==
    /\ call.op = "reset_password" /\ call.status = 200
    /\ \E t \in password_reset_tokens :
          t.user_id = call.user /\ t.token # call.token /\ ~Expired(t)
    /\ \E u \in users : u.id # call.user /\ u.hashed_password # NoHash

\* C26: forgot_password answers 200 with the one generic message whether
\* or not the email belongs to an identity; when it does, exactly one token
\* row is added, owned by that identity, expiring one hour from now, with a
\* token string no row has or had, and the mail goes to that address; when
\* it does not, no row is added and no mail is sent.
C26_ForgotPasswordUniform ==
    [][(call' # call /\ call'.op = "forgot_password") =>
          /\ call'.status = 200
          /\ call'.detail = "If that email exists, a reset link has been sent."
          /\ IF ByEmail(call'.email) = {}
             THEN password_reset_tokens' = password_reset_tokens /\ call'.mail = ""
             ELSE /\ call'.mail = call'.email
                  /\ call'.token \notin
                        {t.token : t \in password_reset_tokens} \cup consumed
                  /\ \E u \in ByEmail(call'.email) :
                        password_reset_tokens' = password_reset_tokens \cup
                           {[token |-> call'.token, user_id |-> u.id,
                             expires_at |-> now + ResetTokenTtl]}]_vars

\* C29: update_password by an authenticated caller answers 200 exactly when
\* the current password verifies against the caller's stored hash and the
\* new password has at least 6 characters, and then the caller's hash is
\* one of the new password; otherwise it answers 400, the users table is as
\* it was and no password-changed mail is sent.  No other identity's row
\* changes either way.
C29_UpdatePasswordChecks ==
    [][(call' # call /\ call'.op = "update_password" /\ call'.user # None) =>
          LET caller == UserRow(call'.user)
              accepted ==
                 /\ caller.hashed_password # NoHash
                 /\ verify_password(call'.password, caller.hashed_password)
                 /\ Len(call'.new_password) >= MinPasswordLength
          IN  /\ call'.status = IF accepted THEN 200 ELSE 400
              /\ ~accepted => users' = users /\ call'.mail = ""
              /\ accepted =>
                    \E new \in users' :
                       /\ users' = (users \ {caller}) \cup {new}
                       /\ [new EXCEPT !.hashed_password = caller.hashed_password] = caller
                       /\ verify_password(call'.new_password, new.hashed_password)
              /\ \A u \in users : u.id # call'.user => u \in users']_vars

\* C29 witness: the current password verified and the new password of two
\* characters was refused; the caller's hash still verifies the current one.
C29_Witness ==
    /\ call.op = "update_password" /\ call.status = 400
    /\ call.detail = "New password must be at least 6 characters"
    /\ Len(call.new_password) < MinPasswordLength
    /\ verify_password(call.password, UserRow(call.user).hashed_password)

---------------------------------------------------------------------------
(* Logins, access tokens and the password changes together *)

Pw == <<"p", "w">>

\* the passwords a login or a reset is tried with
CredentialPasswords == Passwords \cup {Pw}

\* login, the handlers behind require_user and the password reset, one
\* request at a time, asked by the first of the two registered accounts
NextCredential ==
    \/ Tick
    \/ Sleep
    \/ \E password \in CredentialPasswords : login("a@x.com", password)
    \/ \E token \in issued :
         \/ get_me(token)
         \/ update_profile(token, Cat, FALSE)
         \/ \E current_password \in Passwords, new_password \in Passwords :
              update_password(token, current_password, new_password, "s2", FALSE)
    \/ forgot_password("a@x.com", FALSE)
    \/ \E token \in TokenStrings, new_password \in CredentialPasswords :
         reset_password(token, new_password, "s2")

SpecCredential == Init /\ [][NextCredential]_vars

RenameOrPasswordChange ==
    /\ call' # call
    /\ call'.op \in {"update_password", "reset_password", "update_profile"}
    /\ call'.status = 200

\* C24: no request changes what an access token resolves to: a token handed
\* out that resolves to an identity resolves to the same identity after any
\* step at whose end its exp is not behind the clock, the steps of
\* update_password, reset_password and a rename of that identity included.
C24_TokenStateless ==
    [][\A token \in issued :
          TokenIdentity(token) # None =>
             /\ token.exp >= now' => TokenIdentity(token)' = TokenIdentity(token)
             /\ RenameOrPasswordChange /\ call'.user = TokenIdentity(token)
                   => TokenIdentity(token)' = TokenIdentity(token)]_vars

\* C24 witness: get_me with a token handed out before answered for its
\* identity after that identity was renamed and had its password reset.
C24_Witness ==
    /\ call.op = "get_me" /\ call.status = 200
    /\ call.bearer \in issued /\ call.user = 1
    /\ call.name = Cat
    /\ consumed # {}
    /\ ~PasswordMatches(UserRow(1), Hunter2)

PasswordChangeOps == {"update_password", "reset_password"}

\* C25: a successful reset_password or update_password leaves the identity
\* with a hash that verifies the new password and no other one; no other
\* step changes an identity's hash; login answers 200 exactly when the
\* password verifies against the hash of the account of the email; a token
\* row goes exactly in the step of the successful reset that writes the hash.
C25_NewPasswordInForce ==
    [][/\ (call' # call /\ call'.op \in PasswordChangeOps /\ call'.status = 200) =>
            \E u \in users' :
               /\ u.id = call'.user
               /\ \A p \in CredentialPasswords :
                     PasswordMatches(u, p) <=> p = call'.new_password
       /\ \A u \in users :
             (~(call' # call /\ call'.op \in PasswordChangeOps
                  /\ call'.status = 200 /\ call'.user = u.id)) =>
                \E new \in users' :
                   new.id = u.id /\ new.hashed_password = u.hashed_password
       /\ (call' # call /\ call'.op = "login") =>
            (call'.status = 200 <=>
                \E u \in ByEmail(call'.email) : PasswordMatches(u, call'.password))
       /\ (password_reset_tokens \ password_reset_tokens' # {}) <=>
            (call' # call /\ call'.op = "reset_password" /\ call'.status = 200)]_vars

\* C25 witness: after a reset of the first account to another password a
\* login with the password of before was refused.
C25_Witness ==
    /\ call.op = "login" /\ call.status = 401
    /\ call.email = "a@x.com" /\ call.password = Hunter2
    /\ consumed # {}
    /\ \E p \in CredentialPasswords \ {Hunter2} : PasswordMatches(UserRow(1), p)

===========================================================================
